---- MODULE Spec2Model ----
(***************************************************************************)
(* Model of the mermaid-processor pipeline (draft-ts): extraction of       *)
(* fenced mermaid blocks, per-diagram rendering, document rewriting, the   *)
(* chunked batch scheduler of processDirectory and the run entry point     *)
(* processMermaidDiagrams.                                                 *)
(*                                                                         *)
(* Texts are sequences of string tokens.  Every token is an atomic piece   *)
(* of the text (a fence marker, "mermaid", a line feed, a blank, a word),   *)
(* and the text is the concatenation of its tokens.  No token of the       *)
(* document alphabet contains a backtick or a line feed except FENCE and   *)
(* LF themselves, so the regular expression of the source matches exactly  *)
(* at token boundaries.                                                    *)
(***************************************************************************)
EXTENDS Integers, Sequences, FiniteSets, Bags, TLC

\* ------------------------------------------------------------------------
\* Bounds of the model
\* ------------------------------------------------------------------------
MaxFiles == 2

MaxConcurrent == 2

\* The last value of the store's clock and the most stores on one hash.
MaxClock == 2

MaxStores == 2

\* The most calls of extractMermaidDiagrams a client makes.
MaxCalls == 3

\* ------------------------------------------------------------------------
\* Text tokens
\* ------------------------------------------------------------------------
\* The three-backtick fence marker.
FENCE == "<fence>"

MERMAID == "mermaid"

LF == "\n"

SP == " "

IsWhitespace(t) == t \in {LF, SP}

\* The concatenation of the tokens of a text, as one string.
RECURSIVE JoinTokens(_)
JoinTokens(s) == IF s = <<>> THEN "" ELSE Head(s) \o JoinTokens(Tail(s))

\* String.prototype.trim on a token sequence.
RECURSIVE TrimStart(_)
TrimStart(s) ==
  IF s # <<>> /\ IsWhitespace(Head(s)) THEN TrimStart(Tail(s)) ELSE s

RECURSIVE TrimEnd(_)
TrimEnd(s) ==
  IF s # <<>> /\ IsWhitespace(s[Len(s)])
    THEN TrimEnd(SubSeq(s, 1, Len(s) - 1))
    ELSE s

Trim(s) == TrimEnd(TrimStart(s))

\* createHash(sha256).update(content).digest(hex): a function of the
\* content alone, taken to be collision free.
createContentHash(content) == "sha256(" \o JoinTokens(content) \o ")"

\* ------------------------------------------------------------------------
\* The regular expression mermaidRegex (fence, "mermaid", line feed, a lazy
\* body, line feed, fence; global)
\* ------------------------------------------------------------------------
\* The open marker (fence, "mermaid", line feed) starts at position p of text s.
OpensAt(s, p) ==
  /\ p + 2 <= Len(s)
  /\ s[p] = FENCE
  /\ s[p + 1] = MERMAID
  /\ s[p + 2] = LF

\* The close marker (line feed, fence) starts at position q of text s.
ClosesAt(s, q) ==
  /\ q + 1 <= Len(s)
  /\ s[q] = LF
  /\ s[q + 1] = FENCE

\* The first position at or after q where the close marker starts, 0 if none
\* (the lazy quantifier takes the shortest body).
RECURSIVE FirstClose(_, _)
FirstClose(s, q) ==
  IF q + 1 > Len(s) THEN 0
  ELSE IF ClosesAt(s, q) THEN q
  ELSE FirstClose(s, q + 1)

\* mermaidRegex.exec from position from: the leftmost match, as
\* [start, bodyFrom, bodyTo, end], or start = 0 when there is none.
RECURSIVE RegexExec(_, _)
RegexExec(s, from) ==
  IF from > Len(s) THEN [start |-> 0, bodyFrom |-> 0, bodyTo |-> 0, end |-> 0]
  ELSE IF OpensAt(s, from) /\ FirstClose(s, from + 3) # 0
    THEN LET q == FirstClose(s, from + 3)
         IN [start |-> from, bodyFrom |-> from + 3, bodyTo |-> q - 1, end |-> q + 1]
  ELSE RegexExec(s, from + 1)

\* All matches of the global regular expression, left to right, each search
\* resuming after the previous match (lastIndex).
RECURSIVE RegexMatches(_, _)
RegexMatches(s, from) ==
  LET m == RegexExec(s, from)
  IN IF m.start = 0 THEN <<>> ELSE <<m>> \o RegexMatches(s, m.end + 1)

\* The capture group match[1] of a match.
Capture(s, m) == SubSeq(s, m.bodyFrom, m.bodyTo)

\* ------------------------------------------------------------------------
\* extractMermaidDiagrams
\* ------------------------------------------------------------------------
\* Mutant of DiagramInfo: the id is taken from the code and the index.
DiagramInfoIndexedId(s, m, index) ==
  LET code == Trim(Capture(s, m))
  IN [id      |-> createContentHash(code \o <<ToString(index)>>),
      code    |-> code,
      altText |-> "Mermaid diagram " \o ToString(index + 1),
      index   |-> index]

\* The DiagramInfo pushed for the match m found when the counter is index.
\* The id is the hash of the trimmed capture (its 8 character prefix is
\* taken to be as collision free as the hash).
DiagramInfo(s, m, index) ==
  LET code == Trim(Capture(s, m))
  IN [id      |-> createContentHash(code),
      code    |-> code,
      altText |-> "Mermaid diagram " \o ToString(index + 1),
      index   |-> index]

\* Mutant of extractMermaidDiagrams: the counter starts at 1.
extractMermaidDiagramsOneBased(content) ==
  LET ms == RegexMatches(content, 1)
  IN [i \in 1..Len(ms) |-> DiagramInfo(content, ms[i], i)]

extractMermaidDiagrams(content) ==
  LET ms == RegexMatches(content, 1)
  IN [i \in 1..Len(ms) |-> DiagramInfo(content, ms[i], i - 1)]

\* ------------------------------------------------------------------------
\* Paths
\* ------------------------------------------------------------------------
\* path.join normalises its result: a leading "./" segment is dropped.
Normalize(p) == IF Len(p) > 1 /\ Head(p) = "./" THEN Tail(p) ELSE p

PathJoin(dir, name) == Normalize(dir \o <<"/">> \o name)

\* basename(filePath, extname(filePath)) of the document f.
BaseName(f) == "doc" \o ToString(f)

\* The first position where pat occurs in s, 0 if nowhere.
RECURSIVE IndexOf(_, _, _)
IndexOf(s, pat, from) ==
  IF from + Len(pat) - 1 > Len(s) THEN 0
  ELSE IF SubSeq(s, from, from + Len(pat) - 1) = pat THEN from
  ELSE IndexOf(s, pat, from + 1)

\* String.prototype.replace(pattern, replacement) with a string pattern: the
\* first occurrence only, the string unchanged when there is none.
StringReplace(s, pat, rep) ==
  LET i == IndexOf(s, pat, 1)
  IN IF i = 0 THEN s
     ELSE SubSeq(s, 1, i - 1) \o rep \o SubSeq(s, i + Len(pat), Len(s))

\* The outputPath processDiagram returns for a diagram of document f.
OutputPath(cfg, diagram, f) ==
  PathJoin(cfg.outputDir, <<BaseName(f), "-", diagram.id, ".svg">>)

\* ------------------------------------------------------------------------
\* replaceMermaidBlocks
\* ------------------------------------------------------------------------
\* code.replace(/\n/g, '\n> ')
RECURSIVE QuoteLines(_)
QuoteLines(code) ==
  IF code = <<>> THEN <<>>
  ELSE IF Head(code) = LF THEN <<LF, ">", SP>> \o QuoteLines(Tail(code))
  ELSE <<Head(code)>> \o QuoteLines(Tail(code))

\* Mutant of SourceBlock: every style but none emits the inline block.
SourceBlockAlwaysInline(cfg, code) ==
  IF cfg.includeSourceCode /\ cfg.sourceCodeStyle # "none"
    THEN <<LF, LF, FENCE, MERMAID, LF>> \o code \o <<LF, FENCE>>
    ELSE <<>>

\* The source re-emitted after the image, by style (the switch has no case
\* for footnote).
SourceBlock(cfg, code) ==
  IF cfg.includeSourceCode /\ cfg.sourceCodeStyle # "none"
    THEN CASE cfg.sourceCodeStyle = "inline" ->
                <<LF, LF, FENCE, MERMAID, LF>> \o code \o <<LF, FENCE>>
           [] cfg.sourceCodeStyle = "details" ->
                <<LF, LF, "<details>", LF, "<summary>View source</summary>",
                  LF, LF, FENCE, MERMAID, LF>> \o code
                  \o <<LF, FENCE, LF, LF, "</details>">>
           [] cfg.sourceCodeStyle = "blockquote" ->
                <<LF, LF, ">", SP, FENCE, MERMAID, LF, ">", SP>>
                  \o QuoteLines(code) \o <<LF, ">", SP, FENCE>>
           [] OTHER -> <<>>
    ELSE <<>>

\* The image reference of a diagram whose artifact is at svgPath.
ImageRef(cfg, diagram, svgPath) ==
  <<"![", diagram.altText, "](">>
    \o StringReplace(svgPath, cfg.outputDir, cfg.baseUrl) \o <<")">>

\* The value the replace callback returns for the match m when its counter
\* is index (0-based).
Replacement(content, m, index, diagrams, svgPaths, cfg) ==
  IF index < Len(svgPaths)
    THEN ImageRef(cfg, diagrams[index + 1], svgPaths[index + 1])
           \o SourceBlock(cfg, Capture(content, m))
    ELSE SubSeq(content, m.start, m.end)

\* The output from position from on, the matches ms[k..] still to handle.
RECURSIVE ReplaceFrom(_, _, _, _, _, _, _)
ReplaceFrom(content, ms, k, from, diagrams, svgPaths, cfg) ==
  IF k > Len(ms) THEN SubSeq(content, from, Len(content))
  ELSE SubSeq(content, from, ms[k].start - 1)
         \o Replacement(content, ms[k], k - 1, diagrams, svgPaths, cfg)
         \o ReplaceFrom(content, ms, k + 1, ms[k].end + 1, diagrams, svgPaths, cfg)

\* Mutant of replaceMermaidBlocks: the result is trimmed.
replaceMermaidBlocksTrimmed(content, diagrams, svgPaths, cfg) ==
  Trim(ReplaceFrom(content, RegexMatches(content, 1), 1, 1, diagrams, svgPaths, cfg))

replaceMermaidBlocks(content, diagrams, svgPaths, cfg) ==
  ReplaceFrom(content, RegexMatches(content, 1), 1, 1, diagrams, svgPaths, cfg)

\* ------------------------------------------------------------------------
\* Either, promises, results
\* ------------------------------------------------------------------------
Left(v) == [tag |-> "Left", left |-> v]

Right(v) == [tag |-> "Right", right |-> v]

isLeft(e) == e.tag = "Left"

isRight(e) == e.tag = "Right"

\* A promise is <<>> while pending and <<v>> once fulfilled with v.
Pending == <<>>

Fulfilled(v) == <<v>>

\* The ProcessingResult values processFile returns.
ResultOk(f, n) ==
  [success |-> TRUE, filePath |-> f, diagramsProcessed |-> n, error |-> "none"]

ResultFailed(f, msg) ==
  [success |-> FALSE, filePath |-> f, diagramsProcessed |-> 0, error |-> msg]

\* results.reduce((sum, result) => sum + (result.success ?
\* result.diagramsProcessed : 0), 0)
RECURSIVE SumDiagrams(_)
SumDiagrams(rs) ==
  IF rs = <<>> THEN 0
  ELSE (IF Head(rs).success THEN Head(rs).diagramsProcessed ELSE 0)
         + SumDiagrams(Tail(rs))

\* results.filter(result => !result.success).length
RECURSIVE CountFailed(_)
CountFailed(rs) ==
  IF rs = <<>> THEN 0
  ELSE (IF Head(rs).success THEN 0 ELSE 1) + CountFailed(Tail(rs))

\* Mutant of Stats: only the successful results count as files processed.
StatsSuccessfulFiles(rs) ==
  [filesProcessed    |-> Len(rs) - CountFailed(rs),
   diagramsGenerated |-> SumDiagrams(rs),
   diagramsSkipped   |-> 0,
   errors            |-> CountFailed(rs)]

\* Mutant of Stats: the diagrams are summed up to the first failed result.
StatsUntilFailure(rs) ==
  [filesProcessed    |-> Len(rs),
   diagramsGenerated |->
     SumDiagrams(SubSeq(rs, 1, Cardinality({i \in DOMAIN rs :
                                              \A j \in 1..i : rs[j].success}))),
   diagramsSkipped   |-> 0,
   errors            |-> CountFailed(rs)]

\* The ProcessingStats processDirectory computes from its results.
Stats(rs) ==
  [filesProcessed    |-> Len(rs),
   diagramsGenerated |-> SumDiagrams(rs),
   diagramsSkipped   |-> 0,
   errors            |-> CountFailed(rs)]

\* ------------------------------------------------------------------------
\* Inputs: documents and configurations
\* ------------------------------------------------------------------------
\* A fenced mermaid block with the given body.
Block(body) == <<FENCE, MERMAID, LF>> \o body \o <<LF, FENCE>>

BodyA == <<"graph", SP, "A">>

BodyB == <<"pie", LF, SP, "B">>

\* The documents a file can hold: no block, one block, two different blocks,
\* an empty block.
DocTexts ==
  { <<"#", SP, "T", LF, "text">>,
    <<"#", SP, "T", LF>> \o Block(BodyA),
    Block(BodyA) \o <<LF, "text", LF>> \o Block(BodyB) \o <<LF>>,
    <<"#", SP, "T", LF>> \o Block(<<>>) \o <<LF, "after">> }

\* The fields of ProcessorConfig the pipeline reads.  dbPath is "" when no
\* cache location is configured.
Configs ==
  [inputDir          : {<<"in">>},
   outputDir         : {<<"out">>},
   baseUrl           : {<<"/base">>},
   defaultTheme      : {"dark"},
   includeSourceCode : {TRUE},
   sourceCodeStyle   : {"none", "inline"},
   concurrent        : 1..MaxConcurrent,
   dbPath            : {"", "cache.db"}]

\* ------------------------------------------------------------------------
\* State
\* ------------------------------------------------------------------------
VARIABLES
  config,        \* the ProcessorConfig of the runs
  rootReadable,  \* whether readdir(config.inputDir) succeeds
  dbOpenable,    \* whether the store at config.dbPath can be opened
  orig,          \* orig[f]: the text of document f before a run
  disk,          \* disk[f]: the text of document f on disk
  run,           \* the current run of processMermaidDiagrams: "first", "second"
  pc,            \* where the current run stands
  db,            \* the handle held by this run's database operations
  table,         \* diagram_cache in the store at config.dbPath: exists, rows
  files,         \* the files array of getMarkdownFiles, which it returns
  chunks,        \* the chunks array of processDirectory
  chunk,         \* the number of the chunk being awaited
  results,       \* the results array of processDirectory
  ret,           \* the promise processMermaidDiagrams returned
  fpc,           \* fpc[f]: where the processFile call of document f stands
  content,       \* content[f]: the text processFile read
  svgResults,    \* svgResults[f][i]: the promise of the i-th processDiagram
  fresult,       \* fresult[f]: the promise of processFile(f)
  renderCalls,   \* the bag of (diagramCode, theme) generateSvg was called with
  started,       \* started[f]: calls of processFile on f in this run
  writeCalls,    \* writeCalls[f]: calls of writeFile on f in this run
  completed,     \* completed[f]: the diagrams of f in the order they settled
  ioError,       \* ioError[f]: "read" or "write" when that failed, else "none"
  prev,          \* what the previous run left: disk, ret, renderCalls
  artifacts,     \* the paths of the files written under config.outputDir
  now,           \* the store's CURRENT_TIMESTAMP
  lastResult,    \* the last call on the database operations and how it settled
  lastStored,    \* lastStored[h]: the stores on h that resolved: path and time
  rwIn,          \* the arguments of a call of replaceMermaidBlocks
  rwOut,         \* the promise of its return value
  rwAgain,       \* the promise of the rewrite of the text it returned
  exLog,         \* the calls of extractMermaidDiagrams made: text and result
  heap,          \* heap[r]: the configuration object with the reference r
  nodeEnv,       \* process.env.NODE_ENV
  cfgCalls,      \* the calls of createConfig and applyEnvironmentConfig made
  fsys,          \* the tree under config.inputDir and what fails in it
  walk           \* the entries the calls of getMarkdownFiles have yet to visit

\* The state of a run of the pipeline.
runVars ==
  <<config, rootReadable, orig, disk, run, pc, files, chunks, chunk, results,
    ret, fpc, content, svgResults, fresult, renderCalls, started, writeCalls,
    completed, ioError, prev, artifacts>>

\* The state a client of the database operations sees besides db and table.
clientVars == <<now, lastResult, lastStored>>

\* The state of a call of replaceMermaidBlocks.
rewriteVars == <<rwIn, rwOut, rwAgain>>

\* The calls a client made of extractMermaidDiagrams.
extractVars == <<exLog>>

\* The configuration objects and the calls a client made on them.
configVars == <<heap, nodeEnv, cfgCalls>>

\* The tree getMarkdownFiles walks and where the walk stands.
dirVars == <<fsys, walk>>

vars ==
  <<config, rootReadable, dbOpenable, orig, disk, run, pc, db, table, files,
    chunks, chunk, results, ret, fpc, content, svgResults, fresult, renderCalls,
    started, writeCalls, completed, ioError, prev, artifacts, now, lastResult,
    lastStored, rwIn, rwOut, rwAgain, exLog, heap, nodeEnv, cfgCalls, fsys,
    walk>>

Docs == DOMAIN orig

\* ------------------------------------------------------------------------
\* processDirectory: chunks of config.concurrent files
\* ------------------------------------------------------------------------
Min(a, b) == IF a < b THEN a ELSE b

Max(a, b) == IF a > b THEN a ELSE b

\* The number of chunks the for loop pushes for n files.
NumChunks(n, c) == (n + c - 1) \div c

\* Mutant of LoopIndex: the index advances by one in every iteration.
LoopIndexByOne(n, c) == n

\* The value of i after n iterations of for (let i = 0; ...; i +=
\* config.concurrent).
LoopIndex(n, c) == n * c

\* Array.prototype.slice(a, b): a negative index counts from the end, and
\* both are clamped to the array.
JsSlice(s, a, b) ==
  LET from == IF a < 0 THEN Max(Len(s) + a, 0) ELSE Min(a, Len(s))
      to   == IF b < 0 THEN Max(Len(s) + b, 0) ELSE Min(b, Len(s))
  IN SubSeq(s, from + 1, to)

\* Mutant of ChunkSlice: one file more than config.concurrent in a chunk.
ChunkSliceWide(fs, k, c) == SubSeq(fs, (k - 1) * c + 1, Min(k * c + 1, Len(fs)))

\* Mutant of ChunkSlice: every file is in the first chunk.
ChunkSliceAll(fs, k, c) == IF k = 1 THEN fs ELSE <<>>

\* Mutant of ChunkSlice: only the first file of a chunk is taken.
ChunkSliceHead(fs, k, c) == SubSeq(fs, (k - 1) * c + 1, Min((k - 1) * c + 1, Len(fs)))

\* files.slice(i, i + config.concurrent) in the k-th iteration (k from 1).
ChunkSlice(fs, k, c) ==
  JsSlice(fs, LoopIndex(k - 1, c), LoopIndex(k - 1, c) + c)

\* The chunks array after the for loop ran to its end over fs, for a
\* config.concurrent of at least 1.
ChunksOf(fs, c) == [k \in 1..NumChunks(Len(fs), c) |-> ChunkSlice(fs, k, c)]

SeqRange(q) == {q[i] : i \in DOMAIN q}

\* The documents whose processFile call has started and not yet returned.
InFlight == {f \in Docs : fpc[f] \in {"reading", "rendering", "writing"}}

\* The state of a run before processMermaidDiagrams is called.
FreshRun ==
  /\ pc = "idle"
  /\ db = "null"
  /\ files = <<>>
  /\ chunks = <<>>
  /\ chunk = 0
  /\ results = <<>>
  /\ ret = Pending
  /\ fpc = [f \in Docs |-> "idle"]
  /\ content = [f \in Docs |-> <<>>]
  /\ svgResults = [f \in Docs |-> <<>>]
  /\ fresult = [f \in Docs |-> Pending]
  /\ renderCalls = EmptyBag
  /\ started = [f \in Docs |-> 0]
  /\ writeCalls = [f \in Docs |-> 0]
  /\ completed = [f \in Docs |-> <<>>]
  /\ ioError = [f \in Docs |-> "none"]

NoPrev == [disk |-> <<>>, ret |-> Pending, renderCalls |-> EmptyBag]

\* The content hashes and artifact paths a client stores.
Hashes == {"h1", "h2"}

SvgPaths == {"a.svg", "b.svg"}

\* The store before init created diagram_cache.
NoTable == [exists |-> FALSE, rows |-> {}]

\* No call on the database operations has been made.
NoCall == [op |-> "none"]

\* No client has called the database operations.
ClientIdle ==
  /\ now = 0
  /\ lastResult = NoCall
  /\ lastStored = [h \in Hashes |-> <<>>]

\* replaceMermaidBlocks has not been called on its own.
RewriteIdle ==
  /\ rwIn = [called |-> FALSE]
  /\ rwOut = Pending
  /\ rwAgain = Pending

\* extractMermaidDiagrams has not been called on its own.
ExtractIdle == exLog = <<>>

\* The properties of defaultConfig.
DefaultConfig ==
  [inputDir          |-> "./public/api/articles",
   outputDir         |-> "./public/api/articles",
   baseUrl           |-> "/api/articles",
   defaultTheme      |-> "dark",
   generateBothThemes |-> FALSE,
   includeSourceCode |-> TRUE,
   sourceCodeStyle   |-> "inline",
   backgroundColor   |-> "transparent",
   concurrent        |-> 2,
   skipExisting      |-> FALSE,
   verbose           |-> TRUE]

\* The reference of the object defaultConfig names.
DefaultRef == 1

\* No client has called createConfig or applyEnvironmentConfig: the heap
\* holds defaultConfig only.
ConfigIdle ==
  /\ heap = <<DefaultConfig>>
  /\ nodeEnv = "test"
  /\ cfgCalls = <<>>

\* A tree that is not looked into.
NoTree == [entries |-> <<>>]

\* The walk of getMarkdownFiles is not followed entry by entry.
DirIdle ==
  /\ fsys = NoTree
  /\ walk = <<>>

Init ==
  /\ config \in Configs
  /\ rootReadable \in BOOLEAN
  /\ dbOpenable \in (IF config.dbPath = "" THEN {TRUE} ELSE BOOLEAN)
  /\ \E n \in 0..MaxFiles : orig \in [1..n -> DocTexts]
  /\ disk = orig
  /\ run = "first"
  /\ table = NoTable
  /\ prev = NoPrev
  /\ artifacts = {}
  /\ FreshRun
  /\ ClientIdle
  /\ RewriteIdle
  /\ ExtractIdle
  /\ ConfigIdle
  /\ DirIdle

\* ------------------------------------------------------------------------
\* processMermaidDiagrams
\* ------------------------------------------------------------------------
\* Mutant of CatchRunError: the error is swallowed and empty stats returned.
CatchRunErrorAsStats(msg) == Fulfilled(Right(Stats(<<>>)))

\* Mutant of CatchRunError: the error is thrown on, the promise rejects.
CatchRunErrorRethrows(msg) == Fulfilled([tag |-> "Rejected", left |-> msg])

\* The catch of processMermaidDiagrams: the promise it returns is fulfilled
\* with a Left of the message.
CatchRunError(msg) == Fulfilled(Left(msg))

\* processMermaidDiagrams is called: with a dbPath it creates the database
\* operations and awaits init, otherwise it calls processDirectory, which
\* awaits getMarkdownFiles.
Call ==
  /\ pc = "idle"
  /\ pc' = IF config.dbPath # "" THEN "dbinit" ELSE "discover"
  /\ UNCHANGED <<config, rootReadable, dbOpenable, orig, disk, run, db, table,
                 files, chunks, chunk, results, ret, fpc, content, svgResults, fresult,
                 renderCalls, started, writeCalls, completed, ioError, prev>>
  /\ UNCHANGED <<artifacts, clientVars, rewriteVars, extractVars, configVars,
               dirVars>>

\* safeDatabaseOperations.init: a Right when dbOps.init resolved, a Left of
\* the error when it rejected.
SafeInit(ok) ==
  IF ok THEN Right("void") ELSE Left("Database initialization failed")

\* Mutant of InitAborts: a failed init is ignored and the run goes on.
InitNeverAborts(initResult) == FALSE

\* if (initResult.isLeft()) return ...
InitAborts(initResult) == isLeft(initResult)

\* safeDbOps.init() settles.  init assigns the new Database to db before the
\* open callback runs; a failure makes the run return the Left of init.
DbInitDone ==
  /\ pc = "dbinit"
  /\ db' = IF dbOpenable THEN "open" ELSE "failed"
  /\ table' = IF dbOpenable THEN [table EXCEPT !.exists = TRUE] ELSE table
  /\ IF InitAborts(SafeInit(dbOpenable))
       THEN /\ pc' = "returned"
            /\ ret' = Fulfilled(SafeInit(dbOpenable))
       ELSE /\ pc' = "discover"
            /\ ret' = ret
  /\ UNCHANGED <<config, rootReadable, dbOpenable, orig, disk, run,
                 files, chunks, chunk, results, fpc, content, svgResults, fresult,
                 renderCalls, started, writeCalls, completed, ioError, prev>>
  /\ UNCHANGED <<artifacts, clientVars, rewriteVars, extractVars, configVars,
               dirVars>>

\* getMarkdownFiles settles.  A rejection is caught by processMermaidDiagrams.
\* Otherwise processDirectory builds the chunks and calls processFile on every
\* file of the first one; with no file it returns the stats of no result.
DiscoverDone ==
  /\ pc = "discover"
  /\ IF ~rootReadable
       THEN /\ pc' = "returned"
            /\ ret' = CatchRunError("Processing failed")
            /\ UNCHANGED <<files, chunks, chunk, fpc, started>>
       ELSE LET fs == [i \in Docs |-> i]
                cs == ChunksOf(fs, config.concurrent)
                first == IF cs = <<>> THEN {} ELSE SeqRange(cs[1])
            IN /\ files' = fs
               /\ chunks' = cs
               /\ IF cs = <<>>
                    THEN /\ pc' = "returned"
                         /\ ret' = Fulfilled(Right(Stats(<<>>)))
                         /\ UNCHANGED <<chunk, fpc, started>>
                    ELSE /\ pc' = "chunk"
                         /\ ret' = ret
                         /\ chunk' = 1
                         /\ fpc' = [f \in Docs |->
                                      IF f \in first THEN "reading" ELSE fpc[f]]
                         /\ started' = [f \in Docs |->
                                      IF f \in first THEN started[f] + 1
                                      ELSE started[f]]
  /\ UNCHANGED <<config, rootReadable, dbOpenable, orig, disk, run, db, table,
                 results, content, svgResults, fresult, renderCalls, writeCalls,
                 completed, ioError, prev>>
  /\ UNCHANGED <<artifacts, clientVars, rewriteVars, extractVars, configVars,
               dirVars>>

\* ------------------------------------------------------------------------
\* processFile
\* ------------------------------------------------------------------------
\* Mutant of PushResults: the results of failed documents are dropped.
PushSuccessful(rs, chunkResults) ==
  rs \o SelectSeq(chunkResults, LAMBDA r : r.success)

\* results.push(...chunkResults)
PushResults(rs, chunkResults) == rs \o chunkResults

\* processFile(f) returns res.  When that settles the last promise of the
\* chunk, Promise.all resolves: the chunk's results are pushed in the order of
\* the chunk and either processFile is called on every file of the next chunk
\* or the stats are computed and the run returns.
Settle(f, res) ==
  LET fr == [fresult EXCEPT ![f] = Fulfilled(res)]
      cur == chunks[chunk]
      complete == \A i \in DOMAIN cur : fr[cur[i]] # Pending
      rs == PushResults(results, [i \in DOMAIN cur |-> fr[cur[i]][1]])
      next == IF chunk < Len(chunks) THEN SeqRange(chunks[chunk + 1]) ELSE {}
  IN /\ fresult' = fr
     /\ IF ~complete
          THEN /\ fpc' = [fpc EXCEPT ![f] = "done"]
               /\ UNCHANGED <<results, chunk, pc, ret, started>>
          ELSE /\ results' = rs
               /\ IF chunk = Len(chunks)
                    THEN /\ pc' = "returned"
                         /\ ret' = Fulfilled(Right(Stats(rs)))
                         /\ fpc' = [fpc EXCEPT ![f] = "done"]
                         /\ UNCHANGED <<chunk, started>>
                    ELSE /\ chunk' = chunk + 1
                         /\ fpc' = [g \in Docs |->
                                      IF g \in next THEN "reading"
                                      ELSE IF g = f THEN "done" ELSE fpc[g]]
                         /\ started' = [g \in Docs |->
                                      IF g \in next THEN started[g] + 1
                                      ELSE started[g]]
                         /\ UNCHANGED <<pc, ret>>

\* The bag of generateSvg calls after one call per diagram of ds.
RECURSIVE CallsFor(_, _, _)
CallsFor(calls, ds, theme) ==
  IF ds = <<>> THEN calls
  ELSE CallsFor(calls (+) SetToBag({<<Head(ds).code, theme>>}), Tail(ds), theme)

\* Mutant of RenderCallsAfter: only the first diagram is rendered.
RenderCallsFirstOnly(calls, ds, cfg) ==
  CallsFor(calls, <<Head(ds)>>, cfg.defaultTheme)

\* processDiagram: every diagram is rendered by a call of generateSvg.
RenderCallsAfter(calls, ds, cfg) == CallsFor(calls, ds, cfg.defaultTheme)

\* Mutant of EarlyReturn: a document without diagrams is reported as failed.
EarlyReturnAsFailure(f, ds) ==
  IF Len(ds) = 0 THEN <<ResultFailed(f, "No diagrams")>> ELSE <<>>

\* Mutant of CatchFileError: the error is swallowed and a success returned.
CatchFileErrorAsSuccess(f) == ResultOk(f, 0)

\* The catch of processFile: a failed result with the error as message.
CatchFileError(f) == ResultFailed(f, "Failed to process file")

\* The early return of processFile for a document with the diagrams ds: a
\* success of 0 diagrams when there is none.
EarlyReturn(f, ds) == IF Len(ds) = 0 THEN <<ResultOk(f, 0)>> ELSE <<>>

\* readFile of document f settles.  A failure is caught and makes the result
\* a failure.  Otherwise the diagrams are extracted; with none the result is
\* a success of 0 diagrams, else processDiagram is called on each of them.
ReadDone(f) ==
  /\ fpc[f] = "reading"
  /\ \E ok \in BOOLEAN :
       IF ~ok
         THEN /\ Settle(f, CatchFileError(f))
              /\ ioError' = [ioError EXCEPT ![f] = "read"]
              /\ UNCHANGED <<content, svgResults, renderCalls>>
         ELSE LET ds == extractMermaidDiagrams(disk[f])
              IN /\ content' = [content EXCEPT ![f] = disk[f]]
                 /\ ioError' = ioError
                 /\ IF EarlyReturn(f, ds) # <<>>
                      THEN /\ Settle(f, EarlyReturn(f, ds)[1])
                           /\ UNCHANGED <<svgResults, renderCalls>>
                      ELSE /\ fpc' = [fpc EXCEPT ![f] = "rendering"]
                           /\ svgResults' = [svgResults EXCEPT
                                               ![f] = [i \in DOMAIN ds |-> Pending]]
                           /\ renderCalls' = RenderCallsAfter(renderCalls, ds, config)
                           /\ UNCHANGED <<fresult, results, chunk, pc, ret, started>>
  /\ UNCHANGED <<config, rootReadable, dbOpenable, orig, disk, run, db, table,
                 files, chunks, writeCalls, completed, prev>>
  /\ UNCHANGED <<artifacts, clientVars, rewriteVars, extractVars, configVars,
               dirVars>>

\* Mutant of AllValues: the values gathered in another order than that of
\* the promises.
AllValuesReversed(ps) == [i \in DOMAIN ps |-> ps[Len(ps) + 1 - i][1]]

\* The array Promise.all resolves to: the values of the promises by position.
AllValues(ps) == [i \in DOMAIN ps |-> ps[i][1]]

\* svgResults.filter(result => result.isLeft())
LeftsOf(es) == {i \in DOMAIN es : isLeft(es[i])}

\* Mutant of PathsOf: only the path of the first result is kept.
PathsOfFirst(es) ==
  [i \in DOMAIN es \cap {1} |-> IF isRight(es[i]) THEN es[i].right ELSE <<>>]

\* svgResults.map(result => result.fold(() => '', path => path))
PathsOf(es) == [i \in DOMAIN es |-> IF isRight(es[i]) THEN es[i].right ELSE <<>>]

\* Mutant of RenderFailure: failed diagrams are let through.
RenderFailureIgnored(f, ds, es) == <<>>

\* The ProcessingResult of a document whose diagrams ds all settled with es,
\* before any write: a failure when some diagram failed, none otherwise.
RenderFailure(f, ds, es) ==
  IF LeftsOf(es) # {}
    THEN <<ResultFailed(f, "Failed to generate SVG")>>
    ELSE <<>>

\* Mutant of UpdatedContent: the paths are taken in the order in which the
\* diagrams settled.
UpdatedContentByCompletion(f) ==
  LET ds == extractMermaidDiagrams(content[f])
      es == [i \in DOMAIN ds |-> svgResults[f][completed[f][i]][1]]
  IN replaceMermaidBlocks(content[f], ds, PathsOf(es), config)

\* The text processFile writes for document f once its diagrams settled.
UpdatedContent(f) ==
  LET ds == extractMermaidDiagrams(content[f])
  IN replaceMermaidBlocks(content[f], ds, PathsOf(AllValues(svgResults[f])), config)

\* The processDiagram call of the i-th diagram of document f settles: a Left
\* when generateSvg failed, else the Right of the output path.  Once every
\* diagram of f settled, processFile goes on: any Left makes the result a
\* failure, otherwise the content is rewritten and writeFile is called.
RenderDone(f, i) ==
  /\ fpc[f] = "rendering"
  /\ i \in DOMAIN svgResults[f]
  /\ svgResults[f][i] = Pending
  /\ \E ok \in BOOLEAN :
       LET ds == extractMermaidDiagrams(content[f])
           e  == IF ok THEN Right(OutputPath(config, ds[i], f))
                 ELSE Left(<<"Failed to generate SVG">>)
           sr == [svgResults[f] EXCEPT ![i] = Fulfilled(e)]
           all == \A j \in DOMAIN sr : sr[j] # Pending
       IN /\ svgResults' = [svgResults EXCEPT ![f] = sr]
          /\ completed' = [completed EXCEPT ![f] = Append(@, i)]
          /\ IF ~all
               THEN UNCHANGED <<fpc, fresult, results, chunk, pc, ret, started,
                                writeCalls>>
               ELSE IF RenderFailure(f, ds, AllValues(sr)) # <<>>
                 THEN /\ Settle(f, RenderFailure(f, ds, AllValues(sr))[1])
                      /\ UNCHANGED writeCalls
                 ELSE /\ fpc' = [fpc EXCEPT ![f] = "writing"]
                      /\ writeCalls' = [writeCalls EXCEPT ![f] = @ + 1]
                      /\ UNCHANGED <<fresult, results, chunk, pc, ret, started>>
  /\ UNCHANGED <<config, rootReadable, dbOpenable, orig, disk, run, db, table,
                 files, chunks, content, renderCalls, ioError, prev>>
  /\ UNCHANGED <<artifacts, clientVars, rewriteVars, extractVars, configVars,
               dirVars>>

\* writeFile of document f settles.  On success the file holds the updated
\* content and the result counts every diagram; a failure is caught.
WriteDone(f) ==
  /\ fpc[f] = "writing"
  /\ \E ok \in BOOLEAN :
       IF ok
         THEN /\ disk' = [disk EXCEPT ![f] = UpdatedContent(f)]
              /\ ioError' = ioError
              /\ Settle(f, ResultOk(f, Len(extractMermaidDiagrams(content[f]))))
         ELSE /\ disk' = disk
              /\ ioError' = [ioError EXCEPT ![f] = "write"]
              /\ Settle(f, CatchFileError(f))
  /\ UNCHANGED <<config, rootReadable, dbOpenable, orig, run, db, table, files,
                 chunks, content, svgResults, renderCalls, writeCalls, completed, prev>>
  /\ UNCHANGED <<artifacts, clientVars, rewriteVars, extractVars, configVars,
               dirVars>>

\* ------------------------------------------------------------------------
\* A second run over the same documents
\* ------------------------------------------------------------------------
\* After a first run that returned stats without errors, the documents are
\* reset to their original text and processMermaidDiagrams is called again
\* with the same configuration (the store at config.dbPath persists).
Rerun ==
  /\ pc = "returned"
  /\ run = "first"
  /\ isRight(ret[1])
  /\ ret[1].right.errors = 0
  /\ run' = "second"
  /\ disk' = orig
  /\ prev' = [disk |-> disk, ret |-> ret, renderCalls |-> renderCalls]
  /\ pc' = "idle"
  /\ db' = "null"
  /\ files' = <<>>
  /\ chunks' = <<>>
  /\ chunk' = 0
  /\ results' = <<>>
  /\ ret' = Pending
  /\ fpc' = [f \in Docs |-> "idle"]
  /\ content' = [f \in Docs |-> <<>>]
  /\ svgResults' = [f \in Docs |-> <<>>]
  /\ fresult' = [f \in Docs |-> Pending]
  /\ renderCalls' = EmptyBag
  /\ started' = [f \in Docs |-> 0]
  /\ writeCalls' = [f \in Docs |-> 0]
  /\ completed' = [f \in Docs |-> <<>>]
  /\ ioError' = [f \in Docs |-> "none"]
  /\ UNCHANGED <<config, rootReadable, dbOpenable, orig, table>>
  /\ UNCHANGED <<artifacts, clientVars, rewriteVars, extractVars, configVars,
               dirVars>>

Next ==
  \/ Call
  \/ DbInitDone
  \/ DiscoverDone
  \/ \E f \in Docs : ReadDone(f)
  \/ \E f \in Docs : \E i \in 1..Len(svgResults[f]) : RenderDone(f, i)
  \/ \E f \in Docs : WriteDone(f)
  \/ Rerun

Spec == Init /\ [][Next]_vars

\* ------------------------------------------------------------------------
\* The database operations, called by a client on their own
\* ------------------------------------------------------------------------
\* A settled promise of a database operation.
Resolved(v) == [state |-> "resolved", value |-> v]

Rejected(err) == [state |-> "rejected", value |-> err]

\* Mutant of SafeWrap: the rejection of the operation is passed on.
SafeWrapRethrows(prefix, raw) ==
  IF raw.state = "rejected" THEN [tag |-> "Rejected", left |-> raw.value]
  ELSE Right(raw.value)

\* The try/catch of a safeDatabaseOperations member around the awaited
\* operation: a Right of its value, a Left of the prefixed error.
SafeWrap(prefix, raw) ==
  IF raw.state = "rejected" THEN Left(prefix \o ": " \o raw.value)
  ELSE Right(raw.value)

\* The record of a call: the operation, its hash, the promise of the
\* operation and what the safe wrapper returned for it.
CallRecord(op, h, prefix, raw) ==
  [op |-> op, hash |-> h, raw |-> raw, safe |-> SafeWrap(prefix, raw)]

\* The rows with content_hash h.
RowsOf(rows, h) == {r \in rows : r.content_hash = h}

\* SELECT svg_path FROM diagram_cache WHERE content_hash = ?, then
\* row ? row.svg_path : null
SelectPath(rows, h) ==
  IF RowsOf(rows, h) = {} THEN "null"
  ELSE (CHOOSE r \in RowsOf(rows, h) : TRUE).svg_path

\* Mutant of InsertOrReplace: a plain insert into a table without its key.
InsertOnly(rows, h, path, at) ==
  rows \cup {[content_hash |-> h, svg_path |-> path,
              created_at |-> at, updated_at |-> at]}

\* INSERT OR REPLACE INTO diagram_cache (content_hash, svg_path, updated_at)
\* VALUES (?, ?, CURRENT_TIMESTAMP) on the primary key content_hash: the row
\* of the hash is deleted and a new row inserted, created_at by its default.
InsertOrReplace(rows, h, path, at) ==
  (rows \ RowsOf(rows, h))
    \cup {[content_hash |-> h, svg_path |-> path,
           created_at |-> at, updated_at |-> at]}

\* CURRENT_TIMESTAMP advances.
Tick ==
  /\ now < MaxClock
  /\ now' = now + 1
  /\ UNCHANGED <<db, table, dbOpenable, lastResult, lastStored>>
  /\ UNCHANGED <<runVars, rewriteVars, extractVars, configVars,
               dirVars>>

\* init: db is assigned the new Database; a failed open rejects, otherwise
\* CREATE TABLE IF NOT EXISTS runs and its error rejects.
DbInit ==
  /\ \E created \in BOOLEAN :
       LET raw == IF ~dbOpenable THEN Rejected("SQLITE_CANTOPEN")
                  ELSE IF ~created THEN Rejected("SQLITE_ERROR")
                  ELSE Resolved("void")
       IN /\ db' = IF dbOpenable THEN "open" ELSE "failed"
          /\ table' = IF raw.state = "resolved"
                        THEN [table EXCEPT !.exists = TRUE] ELSE table
          /\ lastResult' = CallRecord("init", "", "Database initialization failed", raw)
  /\ UNCHANGED <<dbOpenable, now, lastStored>>
  /\ UNCHANGED <<runVars, rewriteVars, extractVars, configVars,
               dirVars>>

\* close: without a handle it resolves; otherwise db.close runs, its error
\* rejects and its success clears the handle.
DbClose ==
  /\ \E ok \in BOOLEAN :
       LET raw == IF db = "null" THEN Resolved("void")
                  ELSE IF ok /\ db = "open" THEN Resolved("void")
                  ELSE Rejected("SQLITE_MISUSE")
       IN /\ db' = IF raw.state = "resolved" THEN "null" ELSE db
          /\ lastResult' = CallRecord("close", "", "Database close failed", raw)
  /\ UNCHANGED <<table, dbOpenable, now, lastStored>>
  /\ UNCHANGED <<runVars, rewriteVars, extractVars, configVars,
               dirVars>>

\* The operation can run its statement: there is a handle, it is open and
\* the table exists.
CanRun == db = "open" /\ table.exists

\* checkCached(h): without a handle it rejects; otherwise db.get runs, its
\* error rejects and its row gives the path, or null without a row.
DbCheckCached(h) ==
  /\ \E ok \in BOOLEAN :
       LET raw == IF db = "null" THEN Rejected("Database not initialized")
                  ELSE IF ok /\ CanRun THEN Resolved(SelectPath(table.rows, h))
                  ELSE Rejected("SQLITE_ERROR")
       IN lastResult' = CallRecord("checkCached", h, "Cache check failed", raw)
  /\ UNCHANGED <<db, table, dbOpenable, now, lastStored>>
  /\ UNCHANGED <<runVars, rewriteVars, extractVars, configVars,
               dirVars>>

\* store(h, path): without a handle it rejects; otherwise db.run runs the
\* insert, its error rejects.
DbStore(h, path) ==
  /\ Len(lastStored[h]) < MaxStores
  /\ \E ok \in BOOLEAN :
       LET raw == IF db = "null" THEN Rejected("Database not initialized")
                  ELSE IF ok /\ CanRun THEN Resolved("void")
                  ELSE Rejected("SQLITE_ERROR")
       IN /\ lastResult' = CallRecord("store", h, "Cache store failed", raw)
          /\ IF raw.state = "resolved"
               THEN /\ table' = [table EXCEPT
                                   !.rows = InsertOrReplace(@, h, path, now)]
                    /\ lastStored' = [lastStored EXCEPT
                                        ![h] = Append(@, [path |-> path, at |-> now])]
               ELSE UNCHANGED <<table, lastStored>>
  /\ UNCHANGED <<db, dbOpenable, now>>
  /\ UNCHANGED <<runVars, rewriteVars, extractVars, configVars,
               dirVars>>

\* A client with database operations created on a path, no run going on.
InitDb ==
  /\ config \in {c \in Configs : c.dbPath # "" /\ c.concurrent = 1
                                   /\ c.sourceCodeStyle = "none"}
  /\ rootReadable = TRUE
  /\ dbOpenable \in BOOLEAN
  /\ orig = <<>>
  /\ disk = orig
  /\ run = "first"
  /\ table = NoTable
  /\ prev = NoPrev
  /\ artifacts = {}
  /\ FreshRun
  /\ ClientIdle
  /\ RewriteIdle
  /\ ExtractIdle
  /\ ConfigIdle
  /\ DirIdle

NextDb ==
  \/ Tick
  \/ DbInit
  \/ DbClose
  \/ \E h \in Hashes : DbCheckCached(h)
  \/ \E h \in Hashes : \E path \in SvgPaths : DbStore(h, path)

SpecDb == InitDb /\ [][NextDb]_vars

\* ------------------------------------------------------------------------
\* replaceMermaidBlocks, called on its own with the paths processFile
\* extracts from the results of its diagrams
\* ------------------------------------------------------------------------
\* A fenced block that is not a mermaid block.
JsBlock == <<FENCE, "js", LF, "x", LF, FENCE>>

\* The texts rewritten: two blocks among other text, whitespace and a js
\* block; one block between js blocks; one block alone; no block.
RewriteTexts ==
  { <<SP, "intro", LF>> \o JsBlock \o <<LF, LF>> \o Block(BodyA)
      \o <<LF, SP, "mid", LF>> \o Block(BodyB) \o <<LF, "end", SP>>,
    <<LF>> \o JsBlock \o <<LF>> \o Block(BodyB) \o <<LF>> \o JsBlock,
    Block(BodyA),
    <<"text", LF>> \o JsBlock \o <<LF>> }

\* The configurations of a rewrite: every SourceCodeStyle, with and without
\* includeSourceCode, the output directory written plainly and with the
\* leading "./" of the default.
RewriteConfigs ==
  [inputDir          : {<<"in">>},
   outputDir         : {<<"out">>, <<"./", "out">>},
   baseUrl           : {<<"/base">>},
   defaultTheme      : {"dark"},
   includeSourceCode : BOOLEAN,
   sourceCodeStyle   : {"none", "inline", "details", "blockquote", "footnote"},
   concurrent        : {1},
   dbPath            : {""}]

\* The results the diagrams of a text can settle with: each the Right of its
\* output path or a Left.
ResultChoices(cfg, text) ==
  LET ds == extractMermaidDiagrams(text)
  IN [DOMAIN ds -> {Left("Failed to generate SVG")}
                     \cup {Right(OutputPath(cfg, ds[i], 1)) : i \in DOMAIN ds}]

\* A rewrite is about to be called on a text and the results of its diagrams.
InitRewrite ==
  /\ config \in RewriteConfigs
  /\ \E text \in RewriteTexts :
       \E es \in ResultChoices(config, text) :
         /\ \A i \in DOMAIN es :
              isRight(es[i])
                => es[i].right
                     = OutputPath(config, extractMermaidDiagrams(text)[i], 1)
         /\ rwIn = [called |-> FALSE, content |-> text, svgResults |-> es]
  /\ rwOut = Pending
  /\ rwAgain = Pending
  /\ ExtractIdle
  /\ ConfigIdle
  /\ DirIdle
  /\ rootReadable = TRUE
  /\ dbOpenable = TRUE
  /\ orig = <<>>
  /\ disk = orig
  /\ run = "first"
  /\ table = NoTable
  /\ prev = NoPrev
  /\ artifacts = {}
  /\ FreshRun
  /\ ClientIdle

\* const svgPaths = svgResults.map(fold); const updatedContent =
\* replaceMermaidBlocks(content, diagrams, svgPaths, config)
Rewrite ==
  /\ ~rwIn.called
  /\ rwIn' = [rwIn EXCEPT !.called = TRUE]
  /\ rwOut' = Fulfilled(replaceMermaidBlocks(rwIn.content,
                                             extractMermaidDiagrams(rwIn.content),
                                             PathsOf(rwIn.svgResults), config))
  /\ rwAgain' = rwAgain
  /\ UNCHANGED <<runVars, clientVars, extractVars, configVars, dirVars, db, table,
               dbOpenable>>

\* The text processFile leaves for a document that holds text when every
\* render succeeds: the text itself without diagrams, else the rewrite with
\* the output path of every diagram.
ProcessedText(text, cfg) ==
  LET ds == extractMermaidDiagrams(text)
  IN IF Len(ds) = 0 THEN text
     ELSE replaceMermaidBlocks(text, ds,
                               [i \in DOMAIN ds |-> OutputPath(cfg, ds[i], 1)],
                               cfg)

\* processFile once more, on the text a rewrite without a failed render
\* left in the document.
RewriteAgain ==
  /\ rwIn.called
  /\ rwAgain = Pending
  /\ LeftsOf(rwIn.svgResults) = {}
  /\ rwAgain' = Fulfilled(ProcessedText(rwOut[1], config))
  /\ UNCHANGED <<rwIn, rwOut>>
  /\ UNCHANGED <<runVars, clientVars, extractVars, configVars, dirVars, db, table,
               dbOpenable>>

NextRewrite ==
  \/ Rewrite
  \/ RewriteAgain

SpecRewrite == InitRewrite /\ [][NextRewrite]_vars

\* ------------------------------------------------------------------------
\* extractMermaidDiagrams, called by a client on texts of its choice
\* ------------------------------------------------------------------------
\* The texts extracted from: two different blocks; two blocks equal but for
\* the whitespace around the body; an open marker without a close marker
\* before a js block; a block, an open marker without a close marker and a
\* block (the malformed document of the error tests); no block; an open
\* marker alone.
ExtractTexts ==
  { <<"T", LF>> \o Block(BodyA) \o <<LF>> \o Block(BodyB),
    Block(BodyA) \o <<LF>> \o Block(<<SP>> \o BodyA \o <<LF>>),
    <<FENCE, MERMAID, LF, "graph", LF, LF>> \o JsBlock,
    Block(BodyA) \o <<LF, FENCE, MERMAID, LF, "C", LF, LF>> \o Block(BodyB),
    <<"T", LF, "text">>,
    <<FENCE, MERMAID, LF, "graph">> }

\* A client that has made no call.
InitExtract ==
  /\ config \in {c \in Configs : c.dbPath = "" /\ c.concurrent = 1
                                   /\ c.sourceCodeStyle = "none"}
  /\ rootReadable = TRUE
  /\ dbOpenable = TRUE
  /\ orig = <<>>
  /\ disk = orig
  /\ run = "first"
  /\ table = NoTable
  /\ prev = NoPrev
  /\ artifacts = {}
  /\ FreshRun
  /\ ClientIdle
  /\ RewriteIdle
  /\ ExtractIdle
  /\ ConfigIdle
  /\ DirIdle

\* A call of extractMermaidDiagrams(text): the regular expression is made
\* anew by the call, so the search starts at the first position.
Extract(text) ==
  /\ Len(exLog) < MaxCalls
  /\ exLog' = Append(exLog, [text |-> text,
                             diagrams |-> extractMermaidDiagrams(text)])
  /\ UNCHANGED <<runVars, clientVars, rewriteVars, configVars, dirVars, db, table,
               dbOpenable>>

NextExtract == \E text \in ExtractTexts : Extract(text)

SpecExtract == InitExtract /\ [][NextExtract]_vars

\* ------------------------------------------------------------------------
\* createConfig and applyEnvironmentConfig, called by a client
\* ------------------------------------------------------------------------
\* Objects live in a heap and are named by references, so that a change of
\* an object in place and the making of a new object differ.

\* An object literal with two spreads, { ...a, ...b }: the properties of a,
\* then those of b over them.
Spread(a, b) ==
  [k \in DOMAIN a \cup DOMAIN b |-> IF k \in DOMAIN b THEN b[k] ELSE a[k]]

\* The result of a call that allocated the object obj.
Allocated(h, obj) == [heap |-> Append(h, obj), ref |-> Len(h) + 1]

\* Mutant of createConfig: the overrides are assigned into defaultConfig,
\* which is returned.
createConfigAssign(h, ov) ==
  [heap |-> [h EXCEPT ![DefaultRef] = Spread(h[DefaultRef], h[ov])],
   ref  |-> DefaultRef]

\* createConfig(overrides), overrides being the reference ov: a new object
\* of the properties of defaultConfig with those of overrides over them.
createConfig(h, ov) == Allocated(h, Spread(h[DefaultRef], h[ov]))

\* applyEnvironmentConfig(config), config being the reference cfg: a new
\* object with verbose reset in production and in development, the argument
\* itself otherwise.
applyEnvironmentConfig(h, cfg, env) ==
  IF env = "production"
    THEN Allocated(h, Spread(h[cfg], [verbose |-> FALSE]))
  ELSE IF env = "development"
    THEN Allocated(h, Spread(h[cfg], [verbose |-> TRUE]))
  ELSE [heap |-> h, ref |-> cfg]

\* The number of configurations a client creates.
MaxConfigs == 2

\* The overrides a client passes: none, some fields, a field set to the
\* value of the default, verbose.
ConfigOverrides ==
  { [k \in {} |-> TRUE],
    [baseUrl |-> "/output", defaultTheme |-> "dark",
     includeSourceCode |-> FALSE],
    [baseUrl |-> "/different", defaultTheme |-> "light",
     includeSourceCode |-> TRUE, sourceCodeStyle |-> "inline"],
    [verbose |-> FALSE],
    [concurrent |-> 1, verbose |-> TRUE] }

NodeEnvs == {"production", "development", "test"}

InitConfig ==
  /\ config \in {c \in Configs : c.dbPath = "" /\ c.concurrent = 1
                                   /\ c.sourceCodeStyle = "none"}
  /\ rootReadable = TRUE
  /\ dbOpenable = TRUE
  /\ orig = <<>>
  /\ disk = orig
  /\ run = "first"
  /\ table = NoTable
  /\ prev = NoPrev
  /\ artifacts = {}
  /\ FreshRun
  /\ ClientIdle
  /\ RewriteIdle
  /\ ExtractIdle
  /\ DirIdle
  /\ heap = <<DefaultConfig>>
  /\ nodeEnv \in NodeEnvs
  /\ cfgCalls = <<>>

\* The calls of createConfig made so far.
CreateCalls == SelectSeq(cfgCalls, LAMBDA c : c.fn = "createConfig")

\* A client makes an object of overrides and calls createConfig on it.
CreateConfig(overrides) ==
  LET ov == Len(heap) + 1
      r  == createConfig(Append(heap, overrides), ov)
  IN /\ Len(CreateCalls) < MaxConfigs
     /\ heap' = r.heap
     /\ cfgCalls' = Append(cfgCalls, [fn |-> "createConfig", arg |-> ov,
                                      out |-> r.ref, env |-> nodeEnv])
     /\ UNCHANGED nodeEnv
     /\ UNCHANGED <<runVars, clientVars, rewriteVars, extractVars, dirVars, db,
                    table, dbOpenable>>

\* The references createConfig returned that were not yet passed on.
Unapplied ==
  {CreateCalls[i].out : i \in DOMAIN CreateCalls}
    \ {cfgCalls[i].arg : i \in DOMAIN cfgCalls}

\* A client passes a configuration createConfig returned to
\* applyEnvironmentConfig, as processMermaidDiagrams does.
ApplyEnvironmentConfig(cfg) ==
  LET r == applyEnvironmentConfig(heap, cfg, nodeEnv)
  IN /\ cfg \in Unapplied
     /\ heap' = r.heap
     /\ cfgCalls' = Append(cfgCalls, [fn |-> "applyEnvironmentConfig",
                                      arg |-> cfg, out |-> r.ref,
                                      env |-> nodeEnv])
     /\ UNCHANGED nodeEnv
     /\ UNCHANGED <<runVars, clientVars, rewriteVars, extractVars, dirVars, db,
                    table, dbOpenable>>

NextConfig ==
  \/ \E overrides \in ConfigOverrides : CreateConfig(overrides)
  \/ \E cfg \in DOMAIN heap : ApplyEnvironmentConfig(cfg)

SpecConfig == InitConfig /\ [][NextConfig]_vars

\* ------------------------------------------------------------------------
\* getMarkdownFiles and the chunking loop, step by step
\* ------------------------------------------------------------------------
\* The directory config.inputDir names.
RootDir == "in"

\* An entry stat reports as a file: its extension and the document it holds
\* (0 when it holds none).
FileEntry(d, ext) == [isDirectory |-> FALSE, name |-> "", ext |-> ext, doc |-> d]

\* An entry stat reports as a directory.
DirEntry(name) == [isDirectory |-> TRUE, name |-> name, ext |-> "", doc |-> 0]

\* String.prototype.toLowerCase on the extensions of the trees.
ToLowerCase(ext) == IF ext = ".MDX" THEN ".mdx" ELSE ext

\* ['.md', '.mdx'].includes(extname(filePath).toLowerCase())
isMarkdownFile(entry) == ToLowerCase(entry.ext) \in {".md", ".mdx"}

\* The extension of the file that holds document d.
ExtOf(d) == IF d % 2 = 1 THEN ".md" ELSE ".MDX"

\* The listing readdir gives of each directory of a tree of n documents: the
\* root holds the first document, the directory sub and a file that is no
\* document; sub holds the other documents.
TreeEntries(n) ==
  [d \in {RootDir, "sub"} |->
     IF d = RootDir
       THEN (IF n >= 1 THEN <<FileEntry(1, ExtOf(1))>> ELSE <<>>)
              \o <<DirEntry("sub"), FileEntry(0, ".txt")>>
       ELSE [i \in 1..(n - 1) |-> FileEntry(i + 1, ExtOf(i + 1))]]

\* The trees of n documents: nothing fails, or readdir rejects on one
\* directory, or stat rejects on one entry.
Trees(n) ==
  LET es == TreeEntries(n)
      all == UNION {SeqRange(es[d]) : d \in DOMAIN es}
  IN {[entries |-> es, unreadable |-> {}, unstatable |-> {}]}
       \cup {[entries |-> es, unreadable |-> {d}, unstatable |-> {}] :
               d \in DOMAIN es}
       \cup {[entries |-> es, unreadable |-> {}, unstatable |-> {e}] :
               e \in all}

\* Mutant of ReaddirRejects: no listing ever fails.
ReaddirNeverRejects(fs, dir) == FALSE

\* await readdir(currentDir) rejects.
ReaddirRejects(fs, dir) == dir \in fs.unreadable

\* await stat(fullPath) rejects.
StatRejects(fs, entry) == entry \in fs.unstatable

\* The least config.concurrent a client passes.
MinConcurrent == -1

\* The iterations of the chunking loop that are followed.
MaxLoop == 4

\* The documents of the trees: without a block, with one.
DirTexts == {t \in DocTexts : Len(extractMermaidDiagrams(t)) <= 1}

InitDir ==
  /\ config \in [inputDir          : {<<RootDir>>},
                 outputDir         : {<<"out">>},
                 baseUrl           : {<<"/base">>},
                 defaultTheme      : {"dark"},
                 includeSourceCode : {TRUE},
                 sourceCodeStyle   : {"none"},
                 concurrent        : MinConcurrent..MaxConcurrent,
                 dbPath            : {""}]
  /\ dbOpenable = TRUE
  /\ \E n \in 0..MaxFiles :
       /\ orig \in [1..n -> DirTexts]
       /\ fsys \in Trees(n)
  /\ rootReadable = ~ReaddirRejects(fsys, RootDir)
  /\ walk = <<>>
  /\ disk = orig
  /\ run = "first"
  /\ table = NoTable
  /\ prev = NoPrev
  /\ artifacts = {}
  /\ FreshRun
  /\ ClientIdle
  /\ RewriteIdle
  /\ ExtractIdle
  /\ ConfigIdle

\* The call of the inner processDirectory(dir) of getMarkdownFiles: it
\* awaits readdir(dir).
Frame(dir) == [dir |-> dir, listed |-> FALSE, todo |-> <<>>]

\* What every step of the walk leaves alone.
WalkFrame ==
  UNCHANGED <<config, rootReadable, dbOpenable, orig, disk, run, db, table,
              chunks, chunk, results, fpc, content, svgResults, fresult,
              renderCalls, started, writeCalls, completed, ioError, prev,
              artifacts, fsys, clientVars, rewriteVars, extractVars,
              configVars>>

\* A rejection inside getMarkdownFiles passes through every await up to the
\* catch of processMermaidDiagrams.
WalkRejected ==
  /\ walk' = <<>>
  /\ pc' = "returned"
  /\ ret' = CatchRunError("Processing failed")
  /\ UNCHANGED files

\* processDirectory calls getMarkdownFiles(config.inputDir), which calls its
\* inner processDirectory on it.
DirStart ==
  /\ pc = "discover"
  /\ walk = <<>>
  /\ walk' = <<Frame(RootDir)>>
  /\ UNCHANGED <<pc, ret, files>>
  /\ WalkFrame

\* readdir(currentDir) settles for the innermost call.
DirReaddir ==
  /\ pc = "discover"
  /\ walk # <<>>
  /\ LET top == walk[Len(walk)]
     IN /\ ~top.listed
        /\ IF ReaddirRejects(fsys, top.dir)
             THEN WalkRejected
             ELSE /\ walk' = [walk EXCEPT ![Len(walk)] =
                                [top EXCEPT !.listed = TRUE,
                                            !.todo = fsys.entries[top.dir]]]
                  /\ UNCHANGED <<pc, ret, files>>
  /\ WalkFrame

\* stat(fullPath) settles for the next entry of the innermost call: a
\* directory is walked by a nested call, a markdown file is pushed.
DirStat ==
  /\ pc = "discover"
  /\ walk # <<>>
  /\ LET top == walk[Len(walk)]
         rest == [walk EXCEPT ![Len(walk)] = [top EXCEPT !.todo = Tail(top.todo)]]
     IN /\ top.listed
        /\ top.todo # <<>>
        /\ LET entry == Head(top.todo)
           IN IF StatRejects(fsys, entry)
                THEN WalkRejected
                ELSE /\ walk' = IF entry.isDirectory
                                  THEN Append(rest, Frame(entry.name))
                                  ELSE rest
                     /\ files' = IF ~entry.isDirectory /\ isMarkdownFile(entry)
                                   THEN Append(files, entry.doc)
                                   ELSE files
                     /\ UNCHANGED <<pc, ret>>
  /\ WalkFrame

\* The innermost call has no entry left and resolves; when it is the
\* outermost one, getMarkdownFiles resolves with files and the chunking loop
\* of processDirectory starts.
DirReturn ==
  /\ pc = "discover"
  /\ walk # <<>>
  /\ LET top == walk[Len(walk)]
     IN /\ top.listed
        /\ top.todo = <<>>
        /\ walk' = SubSeq(walk, 1, Len(walk) - 1)
        /\ pc' = IF Len(walk) = 1 THEN "chunking" ELSE pc
  /\ UNCHANGED <<ret, files>>
  /\ WalkFrame

\* What every step of the chunking loop leaves alone.
LoopFrame ==
  UNCHANGED <<config, rootReadable, dbOpenable, orig, disk, run, db, table,
              files, results, content, svgResults, fresult, renderCalls,
              writeCalls, completed, ioError, prev, artifacts, clientVars,
              rewriteVars, extractVars, configVars, dirVars>>

\* An iteration of for (let i = 0; i < files.length; i += config.concurrent):
\* i is config.concurrent times the chunks pushed so far.
DirLoopStep ==
  LET i == LoopIndex(Len(chunks), config.concurrent)
  IN /\ pc = "chunking"
     /\ i < Len(files)
     /\ Len(chunks) < MaxLoop
     /\ chunks' = Append(chunks, JsSlice(files, i, i + config.concurrent))
     /\ UNCHANGED <<pc, ret, chunk, fpc, started>>
     /\ LoopFrame

\* The loop ends: processFile is called on every file of the first chunk, or
\* with no chunk the stats of no result are returned.
DirLoopExit ==
  LET i == LoopIndex(Len(chunks), config.concurrent)
      first == IF chunks = <<>> THEN {} ELSE SeqRange(chunks[1])
  IN /\ pc = "chunking"
     /\ ~(i < Len(files))
     /\ IF chunks = <<>>
          THEN /\ pc' = "returned"
               /\ ret' = Fulfilled(Right(Stats(<<>>)))
               /\ UNCHANGED <<chunk, fpc, started>>
          ELSE /\ pc' = "chunk"
               /\ ret' = ret
               /\ chunk' = 1
               /\ fpc' = [f \in Docs |->
                            IF f \in first THEN "reading" ELSE fpc[f]]
               /\ started' = [f \in Docs |->
                            IF f \in first THEN started[f] + 1
                            ELSE started[f]]
     /\ UNCHANGED chunks
     /\ LoopFrame

NextDir ==
  \/ Call
  \/ DirStart
  \/ DirReaddir
  \/ DirStat
  \/ DirReturn
  \/ DirLoopStep
  \/ DirLoopExit
  \/ \E f \in Docs : ReadDone(f)
  \/ \E f \in Docs : \E i \in 1..Len(svgResults[f]) : RenderDone(f, i)
  \/ \E f \in Docs : WriteDone(f)

\* Every callback that is ready runs: each await of the walk and of
\* processFile settles.
SpecDir == InitDir /\ [][NextDir]_vars /\ WF_vars(NextDir)

\* ------------------------------------------------------------------------
\* Observations used by the properties
\* ------------------------------------------------------------------------
\* The position of the first token tok of s at or after from, 0 if none.
RECURSIVE Find(_, _, _)
Find(s, tok, from) ==
  IF from > Len(s) THEN 0
  ELSE IF s[from] = tok THEN from
  ELSE Find(s, tok, from + 1)

\* The image references of a text, left to right: the label and the target
\* of every "![label](target)".
RECURSIVE ImageRefsFrom(_, _)
ImageRefsFrom(s, from) ==
  LET b == Find(s, "![", from)
      e == IF b = 0 THEN 0 ELSE Find(s, ")", b)
  IN IF b = 0 \/ e = 0 THEN <<>>
     ELSE <<[label |-> s[b + 1], target |-> SubSeq(s, b + 3, e - 1)]>>
            \o ImageRefsFrom(s, e + 1)

ImageRefs(s) == ImageRefsFrom(s, 1)

\* processFile(f) has returned.
Returned(f) == fresult[f] # Pending

\* The ProcessingResult of processFile(f), once returned.
ResultOf(f) == fresult[f][1]

\* The diagrams of f whose render failed, once all of them settled.
FailedDiagrams(f) ==
  {i \in DOMAIN svgResults[f] :
     svgResults[f][i] # Pending /\ isLeft(svgResults[f][i][1])}

AllSettled(f) ==
  /\ svgResults[f] # <<>>
  /\ \A i \in DOMAIN svgResults[f] : svgResults[f][i] # Pending

RunReturned == pc = "returned"

\* ------------------------------------------------------------------------
\* Properties
\* ------------------------------------------------------------------------
\* C1: in one run, generateSvg is invoked at most once for any diagram source
\* and theme, however many blocks carry that source.
C1_AtMostOneRenderPerKey ==
  \A k \in BagToSet(renderCalls) : CopiesIn(k, renderCalls) <= 1

\* C2: a document with N >= 1 blocks of which k fail to render, 0 < k < N, is
\* reported as a success with diagramsProcessed = N - k and is rewritten.
C2_PartialFailureIsSuccess ==
  \A f \in Docs :
    LET n == Len(svgResults[f])
        k == Cardinality(FailedDiagrams(f))
    IN (Returned(f) /\ ioError[f] = "none" /\ AllSettled(f) /\ 0 < k /\ k < n)
         => /\ ResultOf(f).success
            /\ ResultOf(f).diagramsProcessed = n - k
            /\ writeCalls[f] = 1

\* C3: in a rewritten document the i-th image reference, left to right,
\* carries the label and the artifact of the i-th extracted block, whatever
\* the order in which the renders settled.
C3_ReferencesFollowBlockOrder ==
  \A f \in Docs :
    (Returned(f) /\ ResultOf(f).success /\ ResultOf(f).diagramsProcessed > 0)
      => LET ds == extractMermaidDiagrams(orig[f])
             refs == ImageRefs(disk[f])
         IN /\ Len(refs) = Len(ds)
            /\ \A i \in DOMAIN ds :
                 /\ refs[i].label = "Mermaid diagram " \o ToString(i)
                 /\ Len(refs[i].target) >= 4
                 /\ SubSeq(refs[i].target, Len(refs[i].target) - 3,
                           Len(refs[i].target)) =
                      <<BaseName(f), "-", createContentHash(ds[i].code), ".svg">>

C3_Witness ==
  \E f \in Docs :
    /\ Returned(f)
    /\ ResultOf(f).success
    /\ ResultOf(f).diagramsProcessed = 2
    /\ completed[f] = <<2, 1>>
    /\ disk[f] # orig[f]

\* C4: at most config.concurrent processFile calls are in flight.
C4_InFlightAtMostConcurrent == Cardinality(InFlight) <= config.concurrent

C4_Witness ==
  /\ Len(files) > config.concurrent
  /\ Cardinality(InFlight) = config.concurrent
  /\ results # <<>>

\* C5: once discovery succeeded every discovered document is handed to
\* processFile exactly once and yields exactly one result, whatever happens
\* to the other documents: the run returns stats whose filesProcessed is the
\* number of documents.
C5_EveryDocumentOneResult ==
  /\ \A f \in Docs : started[f] <= 1
  /\ (RunReturned /\ rootReadable /\ db # "failed")
       => /\ isRight(ret[1])
          /\ ret[1].right.filesProcessed = Cardinality(Docs)
          /\ Len(results) = Cardinality(Docs)
          /\ \A f \in Docs :
               /\ started[f] = 1
               /\ Cardinality({i \in DOMAIN results : results[i].filePath = f}) = 1

C5_Witness ==
  /\ RunReturned
  /\ isRight(ret[1])
  /\ \E i, j \in DOMAIN results :
       /\ ~results[i].success
       /\ results[j].success
       /\ results[j].diagramsProcessed > 0

\* C6: when the input root cannot be read the run returns a Left and no
\* stats, and no document has been read, rendered or written.
C6_UnreadableRootFailsRun ==
  ~rootReadable
    => /\ \A f \in Docs :
            started[f] = 0 /\ writeCalls[f] = 0 /\ disk[f] = orig[f]
       /\ renderCalls = EmptyBag
       /\ RunReturned => (isLeft(ret[1]) /\ "right" \notin DOMAIN ret[1])

C6_Witness ==
  /\ ~rootReadable
  /\ RunReturned
  /\ Docs # {}
  /\ ret = Fulfilled(Left("Processing failed"))

\* C7: a failed read or write of a document makes its ProcessingResult a
\* failure with a message and 0 diagrams; processFile does not reject, so
\* the run still returns stats.
C7_IoFailureStaysInResult ==
  /\ \A f \in Docs :
       ioError[f] # "none"
         => /\ Returned(f)
            /\ ~ResultOf(f).success
            /\ ResultOf(f).error # "none"
            /\ ResultOf(f).diagramsProcessed = 0
  /\ (RunReturned /\ \E f \in Docs : ioError[f] # "none")
       => (isRight(ret[1]) /\ ret[1].right.errors >= 1)

C7_Witness ==
  /\ RunReturned
  /\ \E f, g \in Docs : ioError[f] = "read" /\ ioError[g] = "write"

\* C8: a document from which no block is extracted is reported as a success
\* of 0 diagrams, with no render call and no write: the file is unchanged.
C8_NoBlocksNoWrite ==
  /\ \A f \in Docs :
       (Returned(f) /\ ioError[f] = "none"
          /\ Len(extractMermaidDiagrams(orig[f])) = 0)
         => /\ ResultOf(f) = ResultOk(f, 0)
            /\ svgResults[f] = <<>>
            /\ writeCalls[f] = 0
            /\ disk[f] = orig[f]
  /\ (\A f \in Docs : Len(extractMermaidDiagrams(orig[f])) = 0)
       => renderCalls = EmptyBag

C8_Witness ==
  /\ RunReturned
  /\ \E f \in Docs :
       /\ Returned(f)
       /\ ioError[f] = "none"
       /\ Len(extractMermaidDiagrams(orig[f])) = 0
       /\ disk[f] = orig[f]

\* Every fenced mermaid span of the text has an empty or blank body.
OnlyBlankBodies(s) ==
  LET ms == RegexMatches(s, 1)
  IN ms # <<>> /\ \A i \in DOMAIN ms : Trim(Capture(s, ms[i])) = <<>>

\* C9: a fenced span whose body is empty or blank yields no DiagramBlock, so
\* a document whose only fenced block is empty is reported with
\* diagramsProcessed = 0 and is left unchanged.
C9_EmptyBodyYieldsNoBlock ==
  \A f \in Docs :
    (Returned(f) /\ ioError[f] = "none")
      => LET ds == extractMermaidDiagrams(content[f])
         IN /\ \A i \in DOMAIN ds : ds[i].code # <<>>
            /\ OnlyBlankBodies(orig[f])
                 => /\ ResultOf(f).success
                    /\ ResultOf(f).diagramsProcessed = 0
                    /\ disk[f] = orig[f]

\* C10: with a dbPath configured, a second run over the same documents,
\* reset to their original text, makes no render call and leaves the same
\* texts as the first run.
C10_SecondRunRendersNothing ==
  (run = "second" /\ config.dbPath # "")
    => /\ renderCalls = EmptyBag
       /\ (RunReturned /\ isRight(ret[1]) /\ ret[1].right.errors = 0)
            => disk = prev.disk

\* C11: with a dbPath configured, a store that cannot be opened makes the
\* run return a Left before discovery and before any document is read or
\* written.
C11_InitFailureBeforeDiscovery ==
  (config.dbPath # "" /\ ~dbOpenable)
    => /\ pc \notin {"discover", "chunk"}
       /\ files = <<>>
       /\ \A f \in Docs :
            started[f] = 0 /\ writeCalls[f] = 0 /\ disk[f] = orig[f]
       /\ RunReturned => isLeft(ret[1])

C11_Witness ==
  /\ config.dbPath # ""
  /\ ~dbOpenable
  /\ rootReadable
  /\ Docs # {}
  /\ ret = Fulfilled(Left("Database initialization failed"))

\* C12: a store opened at the start of a run is closed before the run
\* returns, on every exit path.
C12_StoreClosedOnReturn == RunReturned => db # "open"

\* The last call, when it was a lookup or a store.
LastCacheCall == lastResult.op \in {"checkCached", "store"}

\* The path the last resolved store on h gave, null without one.
LastStoredPath(h) ==
  IF lastStored[h] = <<>> THEN "null"
  ELSE lastStored[h][Len(lastStored[h])].path

C14_OneEntryLastStoreWins ==
  CanRun
    => /\ \A h \in Hashes :
            /\ Cardinality(RowsOf(table.rows, h)) <= 1
            /\ SelectPath(table.rows, h) = LastStoredPath(h)
       /\ (lastResult.op = "checkCached" /\ lastResult.raw.state = "resolved")
            => lastResult.raw.value = LastStoredPath(lastResult.hash)

C14_Witness ==
  /\ CanRun
  /\ lastResult.op = "checkCached"
  /\ lastResult.raw.state = "resolved"
  /\ Len(lastStored[lastResult.hash]) = 2
  /\ lastStored[lastResult.hash][1].path # lastStored[lastResult.hash][2].path
  /\ lastResult.raw.value = lastStored[lastResult.hash][2].path
  /\ \E h \in Hashes : lastStored[h] = <<>>

\* C15: once a row exists for a hash, a later store on the hash keeps its
\* svg_path and its created_at: both are those of the first store.
C15_LaterStoreKeepsPathAndCreation ==
  \A h \in Hashes :
    lastStored[h] # <<>>
      => \A r \in RowsOf(table.rows, h) :
           /\ r.svg_path = lastStored[h][1].path
           /\ r.created_at = lastStored[h][1].at

\* ------------------------------------------------------------------------
\* The shape of a rewritten text
\* ------------------------------------------------------------------------
\* The text outside the spans ms of text s: before the first span (k = 0),
\* after span k.
Seg(s, ms, k) ==
  SubSeq(s, IF k = 0 THEN 1 ELSE ms[k].end + 1,
            IF k = Len(ms) THEN Len(s) ELSE ms[k + 1].start - 1)

\* The lines of s with the quote mark and the space before each taken away;
\* a line without them gives a text no source equals.
RECURSIVE UnquoteLines(_)
UnquoteLines(s) ==
  IF Len(s) < 2 \/ s[1] # ">" \/ s[2] # SP THEN <<"<unquoted>">>
  ELSE LET rest == SubSeq(s, 3, Len(s))
           nl == IndexOf(rest, <<LF>>, 1)
       IN IF nl = 0 THEN rest
          ELSE SubSeq(rest, 1, nl) \o UnquoteLines(SubSeq(rest, nl + 1, Len(rest)))

\* src is the source of a block with the given body, re-emitted in the
\* style of cfg.
SourceAsStyled(cfg, body, src) ==
  IF ~cfg.includeSourceCode \/ cfg.sourceCodeStyle \in {"none", "footnote"}
    THEN src = <<>>
  ELSE IF cfg.sourceCodeStyle = "inline"
    THEN src = <<LF, LF>> \o Block(body)
  ELSE IF cfg.sourceCodeStyle = "details"
    THEN src = <<LF, LF, "<details>", LF, "<summary>View source</summary>", LF, LF>>
                 \o Block(body) \o <<LF, LF, "</details>">>
  ELSE /\ Len(src) > 2
       /\ SubSeq(src, 1, 2) = <<LF, LF>>
       /\ UnquoteLines(SubSeq(src, 3, Len(src))) = Block(body)

\* piece is an image reference with the alternative text of block k.
StartsWithImage(piece, k) ==
  /\ Len(piece) >= 4
  /\ SubSeq(piece, 1, 3) = <<"![", "Mermaid diagram " \o ToString(k), "](">>
  /\ IndexOf(piece, <<")">>, 1) # 0

\* piece stands for block k of the call c as the reading c.mode asks:
\* "absent": the span itself when the artifact is absent, an image otherwise;
\* "frame":  the span itself or an image;
\* "style":  when the artifact is present, the image and then the source in
\*           the style of the configuration.
PieceOk(piece, k, c) ==
  LET span == SubSeq(c.content, c.ms[k].start, c.ms[k].end)
      absent == isLeft(c.svgResults[k])
      close == IndexOf(piece, <<")">>, 1)
  IN CASE c.mode = "absent" ->
            IF absent THEN piece = span ELSE StartsWithImage(piece, k)
       [] c.mode = "frame" -> piece = span \/ StartsWithImage(piece, k)
       [] c.mode = "style" ->
            absent \/ /\ StartsWithImage(piece, k)
                      /\ SourceAsStyled(c.cfg, Capture(c.content, c.ms[k]),
                                        SubSeq(piece, close + 1, Len(piece)))

\* out, from position p on, is the outside text after span k of the call c,
\* then a piece for span k + 1, and so on to the end of out.
RECURSIVE Decomposes(_, _, _, _)
Decomposes(out, p, k, c) ==
  LET seg == Seg(c.content, c.ms, k)
      e == p + Len(seg)
  IN /\ e - 1 <= Len(out)
     /\ SubSeq(out, p, e - 1) = seg
     /\ IF k = Len(c.ms) THEN e - 1 = Len(out)
        ELSE \E q \in e..(Len(out) + 1) :
               /\ PieceOk(SubSeq(out, e, q - 1), k + 1, c)
               /\ Decomposes(out, q, k + 1, c)

\* The call of replaceMermaidBlocks that returned, read in the given mode.
RewriteCall(mode) ==
  [content |-> rwIn.content, ms |-> RegexMatches(rwIn.content, 1),
   svgResults |-> rwIn.svgResults, cfg |-> config, mode |-> mode]

\* The number of blocks of the rewritten text whose result is a Right.
PresentBlocks == Cardinality({i \in DOMAIN rwIn.svgResults : isRight(rwIn.svgResults[i])})

\* C16: a block whose artifact is absent keeps its fenced span exactly and
\* gets no image reference, while every block whose artifact is present is
\* replaced by an image reference.
C16_AbsentArtifactLeavesSpan ==
  rwIn.called => Decomposes(rwOut[1], 1, 0, RewriteCall("absent"))

\* C17: the rewritten text is the original with each diagram span
\* substituted: every segment outside the spans is in the output unchanged
\* and in the same order, from the first token to the last.
C17_OutsideTextUnchanged ==
  rwIn.called => Decomposes(rwOut[1], 1, 0, RewriteCall("frame"))

C17_Witness ==
  /\ rwIn.called
  /\ Len(rwIn.svgResults) = 2
  /\ PresentBlocks = 2
  /\ IndexOf(rwOut[1], JsBlock, 1) # 0
  /\ rwOut[1] # rwIn.content
  /\ rwOut[1][1] = SP
  /\ rwOut[1][Len(rwOut[1])] = SP

C19_ArtifactWrittenPerDiagram ==
  RunReturned
    => \A f \in Docs :
         (Returned(f) /\ ResultOf(f).success /\ ResultOf(f).diagramsProcessed > 0)
           => LET ds == extractMermaidDiagrams(orig[f])
                  refs == ImageRefs(disk[f])
              IN \A i \in DOMAIN ds :
                   /\ OutputPath(config, ds[i], f) \in artifacts
                   /\ i <= Len(refs)
                   /\ refs[i].target
                        = StringReplace(OutputPath(config, ds[i], f),
                                        config.outputDir, config.baseUrl)

\* C20: the reference inserted for the block at 0-based position i of a
\* document is labelled with i + 1 and targets the base URL, the base name
\* of the document, a dash, i and .svg, and the artifact file of that name
\* exists under the output directory after the run.
C20_ArtifactNamedByIndex ==
  RunReturned
    => \A f \in Docs :
         (Returned(f) /\ ResultOf(f).success /\ ResultOf(f).diagramsProcessed > 0)
           => LET ds == extractMermaidDiagrams(orig[f])
                  refs == ImageRefs(disk[f])
              IN \A i \in DOMAIN ds :
                   /\ i <= Len(refs)
                   /\ refs[i].label = "Mermaid diagram " \o ToString(i)
                   /\ refs[i].target
                        = config.baseUrl
                            \o <<"/", BaseName(f), "-", ToString(i - 1), ".svg">>
                   /\ (config.outputDir
                         \o <<"/", BaseName(f), "-", ToString(i - 1), ".svg">>)
                        \in artifacts

\* C21: for every configuration, also with the output directory written as
\* "./out", the target of the reference inserted for a rendered block is
\* the base URL followed by the path of the artifact relative to the output
\* directory.
C21_ReferenceUsesBaseUrl ==
  rwIn.called
    => LET ds == extractMermaidDiagrams(rwIn.content)
           refs == ImageRefs(rwOut[1])
       IN \A i \in DOMAIN ds :
            isRight(rwIn.svgResults[i])
              => /\ i <= Len(refs)
                 /\ refs[i].target
                      = config.baseUrl
                          \o <<"/", BaseName(1), "-", ds[i].id, ".svg">>

\* ------------------------------------------------------------------------
\* The calls of extractMermaidDiagrams
\* ------------------------------------------------------------------------
\* The open marker of the match m of text s starts its line, and the close
\* marker ends its line.
OpenIsWholeLine(s, m) == m.start = 1 \/ s[m.start - 1] = LF

CloseIsWholeLine(s, m) == m.end = Len(s) \/ s[m.end + 1] = LF

\* C22: the blocks returned for a text carry the indices 0, 1, ..., n - 1 in
\* the order of their spans in the text, left to right, and the label of the
\* block with index i names position i + 1.
C22_IndicesContiguousInSourceOrder ==
  \A k \in DOMAIN exLog :
    LET ms == RegexMatches(exLog[k].text, 1)
        ds == exLog[k].diagrams
    IN /\ Len(ds) = Len(ms)
       /\ \A i \in DOMAIN ds :
            /\ ds[i].index = i - 1
            /\ ds[i].altText = "Mermaid diagram " \o ToString(ds[i].index + 1)
            /\ ds[i].code = Trim(Capture(exLog[k].text, ms[i]))
            /\ i < Len(ms) => ms[i].end < ms[i + 1].start

C22_Witness ==
  \E k \in DOMAIN exLog :
    /\ Len(exLog[k].diagrams) = 2
    /\ exLog[k].diagrams[1].code = BodyA
    /\ exLog[k].diagrams[2].code = BodyB
    /\ exLog[k].diagrams[2].index = 1

C24_MarkersAreWholeLines ==
  \A k \in DOMAIN exLog :
    LET ms == RegexMatches(exLog[k].text, 1)
    IN /\ Len(exLog[k].diagrams) = Len(ms)
       /\ \A i \in DOMAIN ms :
            /\ OpenIsWholeLine(exLog[k].text, ms[i])
            /\ CloseIsWholeLine(exLog[k].text, ms[i])

\* ------------------------------------------------------------------------
\* The stats of a run
\* ------------------------------------------------------------------------
\* The sum of fn[x] over the elements x of S.
RECURSIVE SumFn(_, _)
SumFn(fn, S) ==
  IF S = {} THEN 0
  ELSE LET x == CHOOSE y \in S : TRUE
       IN fn[x] + SumFn(fn, S \ {x})

\* The positions of rs that hold successful results, and failed ones.
Successes(rs) == {i \in DOMAIN rs : rs[i].success}

Failures(rs) == {i \in DOMAIN rs : ~rs[i].success}

\* The stats the run returned.
ReturnedStats == ret[1].right

\* C25: the stats returned are the fold of the results: filesProcessed is
\* their number, diagramsGenerated the sum of diagramsProcessed over the
\* successful ones, errors the number of failed ones plus the number of
\* failed renders inside successful ones.
C25_StatsAreFoldOfResults ==
  (RunReturned /\ isRight(ret[1]))
    => /\ ReturnedStats.filesProcessed = Len(results)
       /\ ReturnedStats.diagramsGenerated
            = SumFn([i \in DOMAIN results |-> results[i].diagramsProcessed],
                    Successes(results))
       /\ ReturnedStats.errors
            = Cardinality(Failures(results))
                + SumFn([i \in DOMAIN results |->
                           Cardinality(FailedDiagrams(results[i].filePath))],
                        Successes(results))

C25_Witness ==
  /\ RunReturned
  /\ isRight(ret[1])
  /\ Len(results) = 2
  /\ ReturnedStats.errors = 1
  /\ ReturnedStats.diagramsGenerated = 2

\* The list rs rearranged by the permutation p of its positions.
Permuted(rs, p) == [i \in DOMAIN rs |-> rs[p[i]]]

\* C26: the stats of a list of results are those of every permutation of it.
C26_StatsOrderIndependent ==
  \A p \in Permutations(DOMAIN results) :
    Stats(Permuted(results, p)) = Stats(results)

C26_Witness ==
  /\ RunReturned
  /\ Len(results) = 2
  /\ ~results[1].success
  /\ results[2].success
  /\ results[2].diagramsProcessed = 2
  /\ ReturnedStats = Stats(<<results[2], results[1]>>)

\* What processFile makes of document f, by the text of f and what failed:
\* the diagrams counted, or -1 for a failure.
Outcome(f) ==
  IF ioError[f] # "none" \/ FailedDiagrams(f) # {} THEN -1
  ELSE Len(extractMermaidDiagrams(orig[f]))

\* C27: the stats a run returns are fixed by the documents and by what
\* failed on each of them, so runs that differ in the concurrency limit
\* alone, under any interleaving, return the same stats.
C27_StatsIndependentOfConcurrency ==
  (RunReturned /\ isRight(ret[1]))
    => ReturnedStats
         = [filesProcessed    |-> Cardinality(Docs),
            diagramsGenerated |-> SumFn([f \in Docs |-> Outcome(f)],
                                        {f \in Docs : Outcome(f) >= 0}),
            diagramsSkipped   |-> 0,
            errors            |-> Cardinality({f \in Docs : Outcome(f) < 0})]

C27_Witness ==
  /\ RunReturned
  /\ isRight(ret[1])
  /\ config.concurrent = 2
  /\ Cardinality(Docs) = 2
  /\ ReturnedStats.filesProcessed = 2
  /\ ReturnedStats.diagramsGenerated = 3
  /\ \E f \in Docs : completed[f] = <<2, 1>>

\* C28: a second run from the same documents with the same configuration,
\* neither run meeting a failure, ends with the same document texts and the
\* same stats as the first, whatever the order in which the tasks settled.
C28_RunsAreDeterministic ==
  (run = "second" /\ RunReturned /\ isRight(ret[1]) /\ ReturnedStats.errors = 0)
    => /\ disk = prev.disk
       /\ ret = prev.ret

C28_Witness ==
  /\ run = "second"
  /\ RunReturned
  /\ isRight(ret[1])
  /\ ReturnedStats.errors = 0
  /\ ReturnedStats.diagramsGenerated >= 2
  /\ \E f \in Docs : completed[f] = <<2, 1>> /\ disk[f] # orig[f]
  /\ disk = prev.disk

C30_IdempotentOnOwnOutput ==
  rwAgain # Pending => rwAgain[1] = rwOut[1]

\* ------------------------------------------------------------------------
\* The render attempts of a document
\* ------------------------------------------------------------------------
\* The diagrams of the documents whose processFile call reached its
\* processDiagram calls in this run: document and position.
AttemptedDiagrams ==
  UNION {{<<f, i>> : i \in DOMAIN svgResults[f]} : f \in Docs}

\* The code of the i-th diagram of the text processFile read for f.
CodeOf(f, i) == extractMermaidDiagrams(content[f])[i].code

\* C32: a processFile call that found blocks makes one render attempt per
\* block, returns only when each of them has settled, and a failed attempt
\* or what happens to other documents takes none of them away: the calls of
\* generateSvg are exactly one per block of every such document.
C32_EveryBlockAttempted ==
  /\ \A f \in Docs :
       svgResults[f] # <<>>
         => /\ Len(svgResults[f]) = Len(extractMermaidDiagrams(content[f]))
            /\ Returned(f) => AllSettled(f)
  /\ \A k \in BagToSet(renderCalls) \cup
              {<<CodeOf(p[1], p[2]), config.defaultTheme>> : p \in AttemptedDiagrams} :
       CopiesIn(k, renderCalls)
         = Cardinality({p \in AttemptedDiagrams :
                          <<CodeOf(p[1], p[2]), config.defaultTheme>> = k})

C32_Witness ==
  \E f, g \in Docs :
    /\ f # g
    /\ Returned(g)
    /\ ioError[g] = "read"
    /\ Returned(f)
    /\ completed[f] = <<1, 2>>
    /\ isLeft(svgResults[f][1][1])
    /\ isRight(svgResults[f][2][1])

\* The number of the chunk that holds position i of the file list.
ChunkOf(i) == ((i - 1) \div config.concurrent) + 1

C35_WriteOnceAfterAllRenders ==
  \A f \in Docs :
    /\ writeCalls[f] <= 1
    /\ writeCalls[f] = 1 => (AllSettled(f) /\ FailedDiagrams(f) = {})
    /\ (Returned(f) /\ FailedDiagrams(f) # {})
         => /\ ~ResultOf(f).success
            /\ writeCalls[f] = 0
            /\ disk[f] = orig[f]

C35_Witness ==
  \E f, g \in Docs :
    /\ Returned(f)
    /\ Len(svgResults[f]) = 2
    /\ Cardinality(FailedDiagrams(f)) = 1
    /\ disk[f] = orig[f]
    /\ Returned(g)
    /\ writeCalls[g] = 1
    /\ disk[g] # orig[g]

\* The spans of the text s that do not come right after an image reference
\* and a blank line: blocks that were not replaced.
UnreplacedSpans(s) ==
  LET ms == RegexMatches(s, 1)
  IN {i \in DOMAIN ms :
        ~(ms[i].start > 3
            /\ SubSeq(s, ms[i].start - 3, ms[i].start - 1) = <<")", LF, LF>>)}

\* C39: when processFile reports success with n > 0 diagrams, the written
\* document holds n image references, the n-th labelled n, and no span of
\* the text read is left unreplaced.
C39_ReplacedSpansEqualProcessed ==
  \A f \in Docs :
    (Returned(f) /\ ResultOf(f).success /\ ResultOf(f).diagramsProcessed > 0)
      => /\ Len(RegexMatches(content[f], 1)) = ResultOf(f).diagramsProcessed
         /\ Len(ImageRefs(disk[f])) = ResultOf(f).diagramsProcessed
         /\ ImageRefs(disk[f])[ResultOf(f).diagramsProcessed].label
              = "Mermaid diagram " \o ToString(ResultOf(f).diagramsProcessed)
         /\ UnreplacedSpans(disk[f]) = {}

C39_Witness ==
  \E f \in Docs :
    /\ Returned(f)
    /\ ResultOf(f).success
    /\ ResultOf(f).diagramsProcessed = 2
    /\ config.sourceCodeStyle = "inline"
    /\ Len(ImageRefs(disk[f])) = 2
    /\ Len(RegexMatches(disk[f], 1)) = 2

\* ------------------------------------------------------------------------
\* The handle of the database operations
\* ------------------------------------------------------------------------
\* C37: the handle goes from closed to open to closed: a lookup or a store
\* made while the handle is not open fails with the message Database not
\* initialized, and a close that fails leaves the handle open.
C37_HandleLifecycle ==
  /\ (LastCacheCall /\ db # "open")
       => lastResult.raw = Rejected("Database not initialized")
  /\ (lastResult.op = "close" /\ lastResult.raw.state = "rejected")
       => db = "open"

\* C38: an init that fails retains no handle.
C38_FailedInitKeepsNoHandle ==
  (lastResult.op = "init" /\ lastResult.raw.state = "rejected") => db = "null"

\* ------------------------------------------------------------------------
\* Configuration values
\* ------------------------------------------------------------------------
\* The call c returned the properties the code documents for it.
ConfigResultRight(c) ==
  IF c.fn = "createConfig"
    THEN /\ c.out \notin {DefaultRef, c.arg}
         /\ DOMAIN heap[c.out] = DOMAIN DefaultConfig \cup DOMAIN heap[c.arg]
         /\ \A k \in DOMAIN heap[c.out] :
              heap[c.out][k] = IF k \in DOMAIN heap[c.arg] THEN heap[c.arg][k]
                               ELSE DefaultConfig[k]
    ELSE /\ DOMAIN heap[c.out] = DOMAIN heap[c.arg]
         /\ \A k \in DOMAIN heap[c.out] :
              heap[c.out][k] = IF k = "verbose" /\ c.env = "production" THEN FALSE
                               ELSE IF k = "verbose" /\ c.env = "development" THEN TRUE
                               ELSE heap[c.arg][k]

\* C31: createConfig and applyEnvironmentConfig never change an object that
\* existed before the call, defaultConfig included; createConfig returns a
\* new object that has the override's value in every field the overrides
\* hold and the default in every other, whatever was created before it.
C31_ConfigNeverMutated ==
  /\ [](heap[DefaultRef] = DefaultConfig)
  /\ [](\A i \in DOMAIN cfgCalls : ConfigResultRight(cfgCalls[i]))
  /\ [][\A r \in DOMAIN heap : heap'[r] = heap[r]]_vars

\* Two configurations were created from different overrides, the second
\* after the first went through applyEnvironmentConfig in production, and
\* they differ.
C31_Witness ==
  /\ Len(CreateCalls) = MaxConfigs
  /\ \E i, j \in DOMAIN cfgCalls :
       /\ i < j
       /\ cfgCalls[i].fn = "applyEnvironmentConfig"
       /\ cfgCalls[i].env = "production"
       /\ cfgCalls[i].out # cfgCalls[i].arg
       /\ cfgCalls[j].fn = "createConfig"
       /\ heap[cfgCalls[j].out] # heap[cfgCalls[i].arg]
       /\ heap[cfgCalls[j].out].verbose = TRUE

\* ------------------------------------------------------------------------
\* Discovery and the chunking loop
\* ------------------------------------------------------------------------
\* The run returned the stats of one result per discovered document, in the
\* order of discovery.
OneResultPerDocument ==
  /\ pc = "returned"
  /\ ret # Pending
  /\ isRight(ret[1])
  /\ ret[1].right.filesProcessed = Len(files)
  /\ Len(results) = Len(files)
  /\ \A i \in DOMAIN files : results[i].filePath = files[i]

\* C34: with a concurrency limit of at least 1 the run that reached the
\* chunking loop returns with one result per discovered document, given that
\* every processFile call settles; with a limit of 0 or less and a document
\* discovered, the loop never ends and the run never returns.
C34_TerminatesIffPositiveLimit ==
  /\ (pc = "chunking" /\ config.concurrent >= 1) ~> OneResultPerDocument
  /\ [](pc = "returned" /\ isRight(ret[1]) => OneResultPerDocument)
  /\ []((pc = "chunking" /\ config.concurrent <= 0 /\ files # <<>>)
          => [](pc = "chunking" /\ ret = Pending))

\* A run with more documents than the limit returned: the loop pushed more
\* than one chunk.
C34_Witness ==
  /\ OneResultPerDocument
  /\ Len(files) > config.concurrent
  /\ Len(chunks) > 1
  /\ \E i \in DOMAIN results : results[i].success

\* The documents held by the markdown files of the tree.
MarkdownDocs ==
  {e.doc : e \in {x \in UNION {SeqRange(fsys.entries[d]) : d \in DOMAIN fsys.entries} :
                    ~x.isDirectory /\ isMarkdownFile(x)}}

\* Something of the tree fails during discovery.
DiscoveryFails == fsys.unreadable # {} \/ fsys.unstatable # {}

\* C36: no processFile call starts before the walk of the whole tree ended
\* and gave every markdown file of it; when a listing or a stat fails during
\* the walk, the run returns a Left, no processFile call is ever made and no
\* document is modified.
C36_DiscoveryBeforeProcessing ==
  /\ []((\E f \in Docs : started[f] > 0)
          => /\ walk = <<>>
             /\ pc \in {"chunk", "returned"}
             /\ SeqRange(files) = MarkdownDocs
             /\ ~DiscoveryFails)
  /\ [](DiscoveryFails
          => /\ \A f \in Docs : started[f] = 0 /\ disk[f] = orig[f]
             /\ pc = "returned" => (ret # Pending /\ isLeft(ret[1])))
  /\ (pc = "discover" /\ DiscoveryFails)
       ~> (pc = "returned" /\ ret = CatchRunError("Processing failed"))

\* A walk that pushed a document and then failed in the nested directory
\* ended the run with a Left.
C36_Witness ==
  /\ "sub" \in fsys.unreadable
  /\ files # <<>>
  /\ Docs # {}
  /\ pc = "returned"
  /\ ret = CatchRunError("Processing failed")

====
